---- MODULE Spec2Model ----
(***************************************************************************)
(* minio_uploader (src/src/main.rs): one process run is                    *)
(*   main -> run: [uninstall | register context menu] -> Settings::new     *)
(*        -> argument checks -> client -> read file -> put object          *)
(*        -> object URL -> clipboard -> dialog -> exit code.               *)
(* The registry persists between runs; everything else is per run.        *)
(* Strings the program inspects are sequences of one-character strings.    *)
(* External services (file system, registry writes, URL parser, client,    *)
(* put-object, clipboard) answer nondeterministically.  The dialog         *)
(* service is taken to return Ok, so the unwrap() of lines 90 and 99       *)
(* never panics; registry reads (open_subkey) succeed iff the key exists.  *)
(***************************************************************************)
EXTENDS Integers, Sequences, FiniteSets, TLC

VARIABLES
    windows,     \* the build target: cfg(windows) code is compiled in
    registry,    \* the context-menu subtree of HKCU; outlives the process
    args,        \* env::args(), line 104
    exe,         \* env::current_exe() of this process (None: the call fails)
    path_exists, \* whether args[1] names something on the file system
    registry_at_start, \* history: the registry when the process started
    pc,          \* where the process is
    reg_result,  \* what ensure_context_menu_registered returned, line 122
    cfg,         \* the locals of Settings::new
    settings,    \* line 128
    file_name,   \* line 145
    client,      \* the storage client has been built, line 157
    put_issued,  \* put_object_content was sent, line 164
    put_result,  \* line 164
    object_url,  \* line 174
    clipboard,   \* the outcome of the clipboard write, line 183
    dialogs,     \* the dialogs shown in this run, in order
    result,      \* what run() returned
    outcome,     \* the return site of run()
    exit_code    \* the process exit status (-1 while it runs)

vars == <<windows, registry, args, exe, path_exists, registry_at_start, pc, reg_result, cfg, settings,
          file_name, client, put_issued, put_result, object_url,
          clipboard, dialogs, result, outcome, exit_code>>

\* ------------------------------------------------------------- bounds
MaxSlashes == 2
MaxNameLen == 1

\* ------------------------------------------------------------ options
None == <<>>
Some(v) == <<v>>
IsSome(o) == Len(o) = 1
Unwrap(o) == o[1]

\* ------------------------------------------------------------ strings
Last(s) == s[Len(s)]
Front(s) == SubSeq(s, 1, Len(s) - 1)
Rep(c, n) == [i \in 1..n |-> c]
SeqsOf(S, lo, hi) == UNION {[1..k -> S] : k \in lo..hi}

Whitespace == {" ", "\t", "\n", "\r"}

RECURSIVE TrimStart(_)
TrimStart(s) ==
    IF s # <<>> /\ Head(s) \in Whitespace THEN TrimStart(Tail(s)) ELSE s

RECURSIVE TrimEnd(_)
TrimEnd(s) ==
    IF s # <<>> /\ Last(s) \in Whitespace THEN TrimEnd(Front(s)) ELSE s

Trim(s) == TrimEnd(TrimStart(s))

UpperAlpha == <<"A","B","C","D","E","F","G","H","I","J","K","L","M",
                "N","O","P","Q","R","S","T","U","V","W","X","Y","Z">>
LowerAlpha == <<"a","b","c","d","e","f","g","h","i","j","k","l","m",
                "n","o","p","q","r","s","t","u","v","w","x","y","z">>
Digits == {"0","1","2","3","4","5","6","7","8","9"}

AsciiLower(c) ==
    IF \E i \in 1..26 : UpperAlpha[i] = c
    THEN LowerAlpha[CHOOSE i \in 1..26 : UpperAlpha[i] = c]
    ELSE c

EqIgnoreAsciiCase(a, b) ==
    /\ Len(a) = Len(b)
    /\ \A i \in 1..Len(a) : AsciiLower(a[i]) = AsciiLower(b[i])

\* urlencoding::encode keeps [A-Za-z0-9-_.~] and writes every other byte
\* of the UTF-8 text as %XX.
Unreserved ==
    {UpperAlpha[i] : i \in 1..26} \cup {LowerAlpha[i] : i \in 1..26}
        \cup Digits \cup {"-", "_", ".", "~"}

\* U+00E9, two bytes in UTF-8.
EAcute == "U+00E9"

Utf8Hex(c) ==
    CASE c = " "  -> <<"%","2","0">>
      [] c = "%"  -> <<"%","2","5">>
      [] c = "/"  -> <<"%","2","F">>
      [] c = "\\" -> <<"%","5","C">>
      [] c = EAcute  -> <<"%","C","3","%","A","9">>

RECURSIVE encode(_)
encode(s) ==
    IF s = <<>> THEN <<>>
    ELSE (IF Head(s) \in Unreserved THEN <<Head(s)>> ELSE Utf8Hex(Head(s)))
            \o encode(Tail(s))

\* --------------------------------------------------------------- paths
\* A file name byte sequence that is not valid UTF-8 (to_str() is None).
BadByte == "<invalid-utf8>"

IsSeparator(c, win) == c = "/" \/ (win /\ c = "\\")

\* Path::components: split at separators, dropping empty and "." parts.
RECURSIVE Components(_, _, _)
Components(path, cur, win) ==
    LET flush == IF cur = <<>> \/ cur = <<".">> THEN <<>> ELSE <<cur>>
    IN  IF path = <<>> THEN flush
        ELSE IF IsSeparator(Head(path), win)
             THEN flush \o Components(Tail(path), <<>>, win)
             ELSE Components(Tail(path), Append(cur, Head(path)), win)

\* Path::file_name: the last component unless it is "..".
PathFileName(path, win) ==
    LET cs == Components(path, <<>>, win)
    IN  IF cs = <<>> \/ Last(cs) = <<".", ".">> THEN None ELSE Some(Last(cs))

ToStr(os) == IF \E i \in 1..Len(os) : os[i] = BadByte THEN None ELSE Some(os)

UnknownFile == <<"u","n","k","n","o","w","n","_","f","i","l","e">>

\* lines 145-148
FileNameOf(path, win) ==
    LET fname == PathFileName(path, win)
        text == IF IsSome(fname) THEN ToStr(Unwrap(fname)) ELSE None
    IN  IF IsSome(text) THEN Unwrap(text) ELSE UnknownFile

\* lines 170-179
TrimmedEndpoint(endpoint) ==
    LET e == Trim(endpoint)
    IN  IF e # <<>> /\ Last(e) = "/" THEN Front(e) ELSE e

ObjectUrl(s, fname) ==
    TrimmedEndpoint(s.endpoint) \o <<"/">> \o s.bucket \o <<"/">> \o encode(fname)

\* ------------------------------------------------------------ registry
\* HKCU\Software\Classes\*\shell\MinIO Uploader and its command subkey.
NoRegistry == [base |-> FALSE, dflt |-> None, icon |-> None,
               cmd |-> FALSE, cmd_value |-> None]

\* line 221: format!("\"{}\" \"%1\"", exe_str)
CommandFor(exe_str) == <<"\"">> \o exe_str \o <<"\"", " ", "\"%1\"">>

MenuTitle == <<"Upload to MinIO">>

\* The registry after the first k of the five writes of lines 215-222.
RegistryAfterWrites(reg, exe_str, k) ==
    [base      |-> reg.base \/ k >= 1,
     dflt      |-> IF k >= 2 THEN Some(MenuTitle) ELSE reg.dflt,
     icon      |-> IF k >= 3 THEN Some(exe_str) ELSE reg.icon,
     cmd       |-> reg.cmd \/ k >= 4,
     cmd_value |-> IF k >= 5 THEN Some(CommandFor(exe_str)) ELSE reg.cmd_value]

RegistryWrites == 5

\* the "already registered" test of line 207 made on the base key
ensure_checks_base_key(reg, exe_opt, k) ==
    IF reg.base THEN [registry |-> reg, ok |-> TRUE]
    ELSE IF ~IsSome(exe_opt) THEN [registry |-> reg, ok |-> FALSE]
    ELSE [registry |-> RegistryAfterWrites(reg, Unwrap(exe_opt), k),
          ok |-> k = RegistryWrites]

\* lines 200-225: k is the number of registry writes the system lets through.
ensure_context_menu_registered(reg, exe_opt, k) ==
    IF reg.cmd THEN [registry |-> reg, ok |-> TRUE]
    ELSE IF ~IsSome(exe_opt) THEN [registry |-> reg, ok |-> FALSE]
    ELSE [registry |-> RegistryAfterWrites(reg, Unwrap(exe_opt), k),
          ok |-> k = RegistryWrites]

\* What a failed delete_subkey_all may leave behind: everything, or the
\* tree without its command subkey.
PartlyDeleted(reg) ==
    {reg, [reg EXCEPT !.cmd = FALSE, !.cmd_value = None]}

\* delete_subkey of the command key in place of delete_subkey_all
remove_command_only(reg, deleted, left) ==
    IF ~reg.base THEN [registry |-> reg, ok |-> TRUE]
    ELSE IF deleted
         THEN [registry |-> [reg EXCEPT !.cmd = FALSE, !.cmd_value = None],
               ok |-> TRUE]
         ELSE [registry |-> left, ok |-> FALSE]

\* lines 228-236: deleted says whether delete_subkey_all succeeds.
remove_context_menu_registration(reg, deleted, left) ==
    IF ~reg.base THEN [registry |-> reg, ok |-> TRUE]
    ELSE IF deleted THEN [registry |-> NoRegistry, ok |-> TRUE]
    ELSE [registry |-> left, ok |-> FALSE]

\* -------------------------------------------------------------- inputs
UninstallDashes == <<"-","-","u","n","i","n","s","t","a","l","l">>
UninstallSlash == <<"/","u","n","i","n","s","t","a","l","l">>

\* line 107
IsUninstallArg(a) ==
    EqIgnoreAsciiCase(a, UninstallDashes) \/ EqIgnoreAsciiCase(a, UninstallSlash)

HasUninstallArg(argv) == \E i \in 1..Len(argv) : IsUninstallArg(argv[i])

ProgName == <<"u","p">>
NameChars == {"a", " ", EAcute}
Names == SeqsOf(NameChars, 1, MaxNameLen)
Paths == Names \cup {<<"d", "/", "a">>, <<BadByte>>, <<"d", "/", ".", ".">>}
Flags == {UninstallDashes, <<"/","U","N","I","N","S","T","A","L","L">>}
ArgLists ==
    {<<>>, <<ProgName>>}
        \cup {<<ProgName, p>> : p \in Paths \cup Flags}
        \cup {<<ProgName, <<"a">>, UninstallDashes>>}

ExePaths == {<<"C:\\Tools", "\\", "minio_uploader.exe">>,
             <<"D:\\Apps", "\\", "minio_uploader.exe">>}
ExeOpts == {None} \cup {Some(e) : e \in ExePaths}
DataDirs == {None, Some(<<"C:\\Users\\u\\AppData\\Roaming">>)}

Pads == {<<>>, <<" ">>}
Endpoints ==
    {<<>>} \cup {l \o <<"h">> \o Rep("/", n) \o r :
                    l \in Pads, r \in Pads, n \in 0..MaxSlashes}
AccessKeys == {None, Some(<<>>), Some(<<"k">>)}
SecretKeys == {None, Some(<<"s">>)}
BucketValues == {None, Some(<<>>), Some(<<"b">>)}
EndpointValues == {None} \cup {Some(e) : e \in Endpoints}

\* A Settings.toml: either not a key-value document at all, or the keys it
\* gives (None: the key is missing).
Contents ==
    {[syntax_ok |-> FALSE, endpoint |-> None, access_key |-> None,
      secret_key |-> None, bucket |-> None]}
    \cup [syntax_ok : {TRUE}, endpoint : EndpointValues, access_key : AccessKeys,
          secret_key : SecretKeys, bucket : BucketValues]

\* lines 20-26 and 78-80: build()?.try_deserialize()?
Deserialize(content) ==
    IF /\ content.syntax_ok
       /\ IsSome(content.endpoint) /\ IsSome(content.access_key)
       /\ IsSome(content.secret_key) /\ IsSome(content.bucket)
    THEN Some([endpoint |-> Unwrap(content.endpoint),
               access_key |-> Unwrap(content.access_key),
               secret_key |-> Unwrap(content.secret_key),
               bucket |-> Unwrap(content.bucket)])
    ELSE None

\* ------------------------------------------------------------- dialogs
ErrorDialog(kind, detail) == [type |-> "Error", kind |-> kind, detail |-> detail]
InfoDialog(kind, detail) == [type |-> "Info", kind |-> kind, detail |-> detail]

\* --------------------------------------------------- Settings::new locals
NoCfg == [data_dir |-> None, appdata_config |-> None,
          exe_dir_config |-> None, config_path |-> None]

\* lines 31-36 / 40-46: the two candidate paths, when they can be formed.
AppdataCandidate(data_dir) ==
    IF IsSome(data_dir)
    THEN Some(Unwrap(data_dir) \o <<"\\", "MinioUploader", "\\", "Settings.toml">>)
    ELSE None

ExeDirCandidate(exe_opt) ==
    IF IsSome(exe_opt)
    THEN Some(<<Unwrap(exe_opt)[1], "\\", "Settings.toml">>)
    ELSE None

\* the two candidates tried in the other order
ChooseConfigExeFirst(appdata_config, exe_dir_config) ==
    IF IsSome(exe_dir_config) THEN exe_dir_config ELSE appdata_config

\* lines 50-51: appdata_config.or(exe_dir_config)
ChooseConfig(appdata_config, exe_dir_config) ==
    IF IsSome(appdata_config) THEN appdata_config ELSE exe_dir_config

\* lines 53-68: the two paths named in the "not found" dialog
NotFoundPaths(data_dir, exe_opt) ==
    << IF IsSome(data_dir) THEN Unwrap(AppdataCandidate(data_dir))
       ELSE <<"%APPDATA%\\MinioUploader\\Settings.toml">>,
       IF IsSome(exe_opt) THEN Unwrap(ExeDirCandidate(exe_opt))
       ELSE <<"<executable_dir>\\Settings.toml">> >>

\* main without the std::process::exit(1) of line 242
ExitCodeAlwaysZero(res) == 0

\* lines 240-243
ExitCode(res) == IF res = "Err" THEN 1 ELSE 0

\* -------------------------------------------------------------- actions
run_vars == <<reg_result, cfg, settings, file_name, client, put_issued,
              put_result, object_url, clipboard, dialogs, result, outcome,
              exit_code>>

FreshRun ==
    /\ reg_result = "none"
    /\ cfg = NoCfg
    /\ settings = None
    /\ file_name = <<>>
    /\ client = FALSE
    /\ put_issued = FALSE
    /\ put_result = "none"
    /\ object_url = <<>>
    /\ clipboard = "none"
    /\ dialogs = <<>>
    /\ result = "none"
    /\ outcome = "none"
    /\ exit_code = -1

Init ==
    /\ windows \in BOOLEAN
    /\ registry = NoRegistry
    /\ args = <<>>
    /\ exe = None
    /\ path_exists = FALSE
    /\ registry_at_start = NoRegistry
    /\ pc = "idle"
    /\ FreshRun

\* run() returns res at the return site kind; main turns it into the exit
\* status (lines 240-243).
Return(res, kind) ==
    /\ result' = res
    /\ outcome' = kind
    /\ exit_code' = ExitCode(res)
    /\ pc' = "exited"

\* The process is started by the user or by the shell's context menu
\* (line 104 reads the arguments).
Start ==
    /\ pc = "idle"
    /\ args' \in ArgLists
    /\ exe' \in ExeOpts
    /\ path_exists' \in (IF Len(args') >= 2 THEN BOOLEAN ELSE {FALSE})
    /\ registry_at_start' = registry
    /\ pc' = "run"
    /\ UNCHANGED <<windows, registry>>
    /\ UNCHANGED run_vars

\* The process is gone; only the registry keeps what it did.
ProcessEnds ==
    /\ pc = "exited"
    /\ pc' = "idle"
    /\ args' = <<>>
    /\ exe' = None
    /\ path_exists' = FALSE
    /\ registry_at_start' = registry
    /\ reg_result' = "none"
    /\ cfg' = NoCfg
    /\ settings' = None
    /\ file_name' = <<>>
    /\ client' = FALSE
    /\ put_issued' = FALSE
    /\ put_result' = "none"
    /\ object_url' = <<>>
    /\ clipboard' = "none"
    /\ dialogs' = <<>>
    /\ result' = "none"
    /\ outcome' = "none"
    /\ exit_code' = -1
    /\ UNCHANGED <<windows, registry>>

\* lines 106-118
Uninstall ==
    /\ pc = "run" /\ windows /\ HasUninstallArg(args)
    /\ \E deleted \in BOOLEAN, left \in PartlyDeleted(registry) :
         LET r == remove_context_menu_registration(registry, deleted, left)
         IN  /\ registry' = r.registry
             /\ dialogs' = Append(dialogs,
                    IF r.ok THEN InfoDialog("Uninstalled", <<>>)
                    ELSE ErrorDialog("UninstallFailed", <<>>))
             /\ IF r.ok THEN Return("Ok", "Uninstalled")
                ELSE Return("Err", "UninstallFailed")
    /\ UNCHANGED <<windows, args, exe, path_exists, registry_at_start, reg_result, cfg, settings, file_name,
                   client, put_issued, put_result, object_url, clipboard>>

\* lines 120-126
Register ==
    /\ pc = "run" /\ windows /\ ~HasUninstallArg(args)
    /\ \E k \in 0..RegistryWrites :
         LET r == ensure_context_menu_registered(registry, exe, k)
         IN  /\ registry' = r.registry
             /\ reg_result' = IF r.ok THEN "Ok" ELSE "Err"
             /\ dialogs' = IF r.ok THEN dialogs
                           ELSE Append(dialogs, ErrorDialog("RegistrationFailed", <<>>))
    /\ pc' = "settings"
    /\ UNCHANGED <<windows, args, exe, path_exists, registry_at_start, cfg, settings, file_name, client,
                   put_issued, put_result, object_url, clipboard, result,
                   outcome, exit_code>>

\* lines 31-47: the candidates that exist
SettingsProbe ==
    /\ pc = "settings" \/ (pc = "run" /\ ~windows)
    /\ \E d \in DataDirs, appdata_exists \in BOOLEAN, exe_dir_exists \in BOOLEAN :
         cfg' = [data_dir |-> d,
                 appdata_config |->
                     IF appdata_exists THEN AppdataCandidate(d) ELSE None,
                 exe_dir_config |->
                     IF exe_dir_exists THEN ExeDirCandidate(exe) ELSE None,
                 config_path |-> None]
    /\ pc' = "locate"
    /\ UNCHANGED <<windows, registry, args, exe, path_exists, registry_at_start, reg_result, settings,
                   file_name, client, put_issued, put_result, object_url,
                   clipboard, dialogs, result, outcome, exit_code>>

\* lines 50-76
SettingsLocate ==
    /\ pc = "locate"
    /\ LET found == ChooseConfig(cfg.appdata_config, cfg.exe_dir_config)
       IN  IF IsSome(found)
           THEN /\ cfg' = [cfg EXCEPT !.config_path = found]
                /\ pc' = "parse"
                /\ UNCHANGED <<dialogs, result, outcome, exit_code>>
           ELSE /\ dialogs' = Append(dialogs,
                       ErrorDialog("ConfigNotFound", NotFoundPaths(cfg.data_dir, exe)))
                /\ cfg' = NoCfg
                /\ Return("Err", "ConfigNotFound")
    /\ UNCHANGED <<windows, registry, args, exe, path_exists, registry_at_start, reg_result, settings,
                   file_name, client, put_issued, put_result, object_url,
                   clipboard>>

\* lines 78-80: content is what the file at cfg.config_path holds
SettingsParse ==
    /\ pc = "parse"
    /\ \E content \in Contents :
         LET parsed == Deserialize(content)
         IN  IF IsSome(parsed)
             THEN /\ settings' = parsed
                  /\ pc' = "args"
                  /\ UNCHANGED <<result, outcome, exit_code>>
             ELSE /\ settings' = None
                  /\ Return("Err", "ConfigParseError")
    /\ cfg' = NoCfg
    /\ UNCHANGED <<windows, registry, args, exe, path_exists, registry_at_start, reg_result, file_name,
                   client, put_issued, put_result, object_url, clipboard,
                   dialogs>>

\* line 131
ExeName == IF Len(args) >= 1 THEN args[1]
           ELSE <<"minio_uploader.exe">>

\* lines 130-135
CheckArgs ==
    /\ pc = "args"
    /\ IF Len(args) < 2
       THEN /\ dialogs' = Append(dialogs, ErrorDialog("Usage", <<ExeName>>))
            /\ Return("Err", "UsageError")
       ELSE /\ pc' = "file"
            /\ UNCHANGED <<dialogs, result, outcome, exit_code>>
    /\ UNCHANGED <<windows, registry, args, exe, path_exists, registry_at_start, reg_result, cfg, settings,
                   file_name, client, put_issued, put_result, object_url,
                   clipboard>>

\* lines 137-148
CheckFile ==
    /\ pc = "file"
    /\ IF ~path_exists
       THEN /\ dialogs' = Append(dialogs, ErrorDialog("FileNotFound", <<args[2]>>))
            /\ Return("Err", "FileNotFound")
            /\ UNCHANGED file_name
       ELSE /\ file_name' = FileNameOf(args[2], windows)
            /\ pc' = "client"
            /\ UNCHANGED <<dialogs, result, outcome, exit_code>>
    /\ UNCHANGED <<windows, registry, args, exe, path_exists, registry_at_start, reg_result, cfg, settings,
                   client, put_issued, put_result, object_url, clipboard>>

\* lines 150-157
BuildClient ==
    /\ pc = "client"
    /\ \E parsed \in BOOLEAN, built \in BOOLEAN :
         IF ~parsed THEN Return("Err", "BadEndpoint") /\ UNCHANGED client
         ELSE IF ~built THEN Return("Err", "ClientBuild") /\ UNCHANGED client
         ELSE /\ client' = TRUE
              /\ pc' = "read"
              /\ UNCHANGED <<result, outcome, exit_code>>
    /\ UNCHANGED <<windows, registry, args, exe, path_exists, registry_at_start, reg_result, cfg, settings,
                   file_name, put_issued, put_result, object_url, clipboard,
                   dialogs>>

\* lines 159-161
ReadFile ==
    /\ pc = "read"
    /\ \E opened \in BOOLEAN, read \in BOOLEAN :
         IF ~opened THEN Return("Err", "FileOpen")
         ELSE IF ~read THEN Return("Err", "FileRead")
         ELSE /\ pc' = "put"
              /\ UNCHANGED <<result, outcome, exit_code>>
    /\ UNCHANGED <<windows, registry, args, exe, path_exists, registry_at_start, reg_result, cfg, settings,
                   file_name, client, put_issued, put_result, object_url,
                   clipboard, dialogs>>

\* lines 163-179
PutObject ==
    /\ pc = "put"
    /\ put_issued' = TRUE
    /\ put_result' \in {"Ok", "Err"}
    /\ object_url' = ObjectUrl(Unwrap(settings), file_name)
    /\ pc' = "report"
    /\ UNCHANGED <<windows, registry, args, exe, path_exists, registry_at_start, reg_result, cfg, settings,
                   file_name, client, clipboard, dialogs, result, outcome,
                   exit_code>>

\* a clipboard error propagated with ? instead of being reported
AfterUploadClipboardFatal(copied) == IF copied THEN "Ok" ELSE "Err"

\* lines 182-190: what run() returns after a successful upload
AfterUpload(copied) == "Ok"

\* lines 180-196
Report ==
    /\ pc = "report"
    /\ IF put_result = "Ok"
       THEN \E copied \in BOOLEAN :
              /\ clipboard' = IF copied THEN "Ok" ELSE "Err"
              /\ dialogs' = Append(dialogs,
                     IF copied THEN InfoDialog("Uploaded", <<object_url>>)
                     ELSE ErrorDialog("ClipboardFailed", <<object_url>>))
              /\ Return(AfterUpload(copied), "Uploaded")
       ELSE /\ dialogs' = Append(dialogs, ErrorDialog("UploadFailed", <<>>))
            /\ Return("Err", "UploadError")
            /\ UNCHANGED clipboard
    /\ UNCHANGED <<windows, registry, args, exe, path_exists, registry_at_start, reg_result, cfg, settings,
                   file_name, client, put_issued, put_result, object_url>>

Next ==
    \/ Start
    \/ ProcessEnds
    \/ Uninstall
    \/ Register
    \/ SettingsProbe
    \/ SettingsLocate
    \/ SettingsParse
    \/ CheckArgs
    \/ CheckFile
    \/ BuildClient
    \/ ReadFile
    \/ PutObject
    \/ Report

Spec == Init /\ [][Next]_vars

\* ---------------------------------------------------------- properties
Exited == pc = "exited"
UninstallRun == windows /\ HasUninstallArg(args)
Uploaded == put_result = "Ok"
DialogsOfKind(kinds) == {i \in 1..Len(dialogs) : dialogs[i].kind \in kinds}
\* the error dialogs of the run, the non-fatal registration warning aside
FatalErrorDialogs ==
    {i \in 1..Len(dialogs) :
        dialogs[i].type = "Error" /\ dialogs[i].kind # "RegistrationFailed"}

\* C1, as claimed: the exit code is 0 only when the put-object upload
\* succeeded, and every run that ends without a successful upload exits 1.
C1_ExitZeroOnlyAfterUpload ==
    Exited => /\ (exit_code = 0 => Uploaded)
              /\ (~Uploaded => exit_code = 1)

\* C1, amended: the exit code is 0 exactly when the upload succeeded or the
\* run was an uninstall request that left no registry subtree behind; every
\* other run exits 1.
C1_ExitCode ==
    Exited => /\ exit_code \in {0, 1}
              /\ exit_code = 0 <=> (Uploaded \/ (UninstallRun /\ ~registry.base))

\* C1: a run that uploaded, copied the URL and exited 0
C1_Witness == Exited /\ Uploaded /\ clipboard = "Ok" /\ exit_code = 0

\* C2: a run that ends in a fatal error has shown exactly one error dialog
\* for it and exits 1.
C2_OneDialogPerFatalError ==
    (Exited /\ result = "Err" /\ ~UninstallRun)
        => exit_code = 1 /\ Cardinality(FatalErrorDialogs) = 1

\* C3: with fewer than two arguments the run ends with the usage dialog
\* naming the program and exit code 1, whatever the settings file is.
C3_UsageWhateverSettings ==
    (Exited /\ Len(args) < 2 /\ ~UninstallRun)
        => /\ outcome = "UsageError"
           /\ exit_code = 1
           /\ dialogs # <<>>
           /\ Last(dialogs).kind = "Usage"
           /\ Last(dialogs).detail = <<ExeName>>

\* C4: when the path argument names nothing, the run ends with the
\* file-not-found dialog showing the path and exit code 1, and no client is
\* built and no put-object is sent.
C4_FileNotFoundAlways ==
    (Exited /\ Len(args) >= 2 /\ ~UninstallRun /\ ~path_exists)
        => /\ outcome = "FileNotFound"
           /\ exit_code = 1
           /\ dialogs # <<>>
           /\ Last(dialogs).kind = "FileNotFound"
           /\ Last(dialogs).detail = <<args[2]>>
           /\ ~client
           /\ ~put_issued

\* C5: once settings are parsed, all four fields are non-empty, so the
\* pipeline never goes on with an empty field.
C5_SettingsNonEmpty ==
    IsSome(settings)
        => LET st == Unwrap(settings)
           IN  /\ st.endpoint # <<>>
               /\ st.access_key # <<>>
               /\ st.secret_key # <<>>
               /\ st.bucket # <<>>

RECURSIVE TrimAllTrailingSlashes(_)
TrimAllTrailingSlashes(s) ==
    IF s # <<>> /\ Last(s) = "/" THEN TrimAllTrailingSlashes(Front(s)) ELSE s

C7_ClipboardNonFatal ==
    (Exited /\ Uploaded)
        => /\ result = "Ok"
           /\ exit_code = 0
           /\ clipboard \in {"Ok", "Err"}
           /\ Cardinality(DialogsOfKind({"Uploaded", "ClipboardFailed", "UploadFailed"})) = 1
           /\ clipboard = "Ok" => Last(dialogs) = InfoDialog("Uploaded", <<object_url>>)
           /\ clipboard = "Err" =>
                Last(dialogs) = ErrorDialog("ClipboardFailed", <<object_url>>)

\* C7: a run whose upload succeeded and whose clipboard write failed
C7_Witness == Exited /\ Uploaded /\ clipboard = "Err" /\ exit_code = 0

\* what an uninstall run never does: register, load settings, look at the
\* file argument, build a client, upload
UninstallShortCircuits ==
    /\ pc \in {"run", "exited"}
    /\ reg_result = "none"
    /\ cfg = NoCfg
    /\ settings = None
    /\ file_name = <<>>
    /\ ~client
    /\ ~put_issued
    /\ DialogsOfKind({"Uninstalled", "UninstallFailed"}) = 1..Len(dialogs)

\* C8, as claimed: an uninstall run ends with the registry subtree gone
\* (removed if it was there, untouched if it was not), without error, and
\* does nothing else.
C8_UninstallRemoves ==
    UninstallRun =>
        /\ UninstallShortCircuits
        /\ Exited => registry = NoRegistry /\ result = "Ok"

\* C8, amended: an uninstall run does nothing but the removal.  With no
\* subtree it changes nothing and ends Ok with exit code 0.  With a subtree
\* it either removes all of it and ends Ok with exit code 0, or the registry
\* refuses the deletion: then the subtree (at least its base key) is still
\* there, one error dialog is shown and the exit code is 1.
C8_Uninstall ==
    UninstallRun =>
        /\ UninstallShortCircuits
        /\ Exited =>
            /\ Len(dialogs) = 1
            /\ ~registry_at_start.base =>
                 registry = registry_at_start /\ result = "Ok" /\ exit_code = 0
            /\ registry_at_start.base =>
                 \/ /\ registry = NoRegistry
                    /\ result = "Ok"
                    /\ exit_code = 0
                    /\ dialogs[1].type = "Info"
                 \/ /\ registry.base
                    /\ result = "Err"
                    /\ exit_code = 1
                    /\ dialogs[1] = ErrorDialog("UninstallFailed", <<>>)

\* C8: an uninstall run that found the whole entry and removed it
C8_Witness ==
    /\ Exited /\ UninstallRun
    /\ registry_at_start.cmd /\ registry = NoRegistry
    /\ settings = None /\ exit_code = 0

\* C9, as claimed: a registration that finds the command key there changes
\* nothing and succeeds, and after any successful registration the command
\* key exists with the value "<executable-path>" "%1".
C9_RegisteredCommandIsCurrent ==
    reg_result # "none" =>
        /\ registry_at_start.cmd =>
             registry = registry_at_start /\ reg_result = "Ok"
        /\ (reg_result = "Ok" /\ IsSome(exe)) =>
             /\ registry.cmd
             /\ registry.cmd_value = Some(CommandFor(Unwrap(exe)))

\* C9, amended: a registration that finds the command key there changes
\* nothing and succeeds; otherwise a successful one creates the entry (base
\* key with title and icon, command key) with the value
\* "<executable-path>" "%1" of the running executable.  So after any
\* successful registration the command key exists, and later registrations
\* leave it alone; the value of a command key that was already there stays
\* what it was (it may name another executable, or be unset).
C9_Registration ==
    reg_result # "none" =>
        /\ registry_at_start.cmd =>
             registry = registry_at_start /\ reg_result = "Ok"
        /\ (~registry_at_start.cmd /\ reg_result = "Ok") =>
             /\ IsSome(exe)
             /\ registry.base
             /\ registry.dflt = Some(MenuTitle)
             /\ registry.icon = exe
             /\ registry.cmd_value = Some(CommandFor(Unwrap(exe)))
        /\ reg_result = "Ok" => registry.cmd
        /\ reg_result = "Err" => ~registry_at_start.cmd

\* C9: a registration that created the command key and set its value
C9_Witness ==
    /\ reg_result = "Ok" /\ ~registry_at_start.cmd
    /\ registry.cmd /\ IsSome(registry.cmd_value)

\* The step of lines 50-76: the app-data candidate if it exists, else the
\* executable-directory candidate, else the dialog naming both paths.
C10_LocateStep ==
    pc = "locate" =>
        IF IsSome(cfg.appdata_config)
        THEN pc' = "parse" /\ cfg'.config_path = cfg.appdata_config
                /\ dialogs' = dialogs
        ELSE IF IsSome(cfg.exe_dir_config)
        THEN pc' = "parse" /\ cfg'.config_path = cfg.exe_dir_config
                /\ dialogs' = dialogs
        ELSE /\ pc' = "exited"
             /\ outcome' = "ConfigNotFound"
             /\ exit_code' = 1
             /\ Len(dialogs') = Len(dialogs) + 1
             /\ Last(dialogs').type = "Error"
             /\ LET named == Last(dialogs').detail
                IN  /\ Len(named) = 2
                    /\ IsSome(cfg.data_dir) =>
                         named[1] = Unwrap(cfg.data_dir)
                            \o <<"\\", "MinioUploader", "\\", "Settings.toml">>
                    /\ IsSome(exe) =>
                         named[2] = <<Unwrap(exe)[1], "\\", "Settings.toml">>

C10_ConfigNotFoundEnds ==
    outcome = "ConfigNotFound" =>
        /\ Exited
        /\ exit_code = 1
        /\ Cardinality(DialogsOfKind({"ConfigNotFound"})) = 1
        /\ Cardinality(FatalErrorDialogs) = 1
        /\ settings = None
        /\ ~client
        /\ ~put_issued

\* C10: every step of Settings::new that picks the configuration file takes
\* the first existing candidate in the order app-data, executable directory,
\* and a run that finds neither ends as ConfigNotFound: one error dialog
\* naming both paths, exit code 1, no client, no put-object.
C10_ConfigResolution == [][C10_LocateStep]_vars /\ []C10_ConfigNotFoundEnds

\* C10: a run that found neither candidate and has shown its dialog
C10_Witness == Exited /\ outcome = "ConfigNotFound" /\ Len(dialogs) >= 1

====
